---- MODULE Spec2Model ----
(***************************************************************************)
(* wampy.peers.clients: Client / ServiceClient of a WAMP peer.             *)
(*                                                                         *)
(* The client owns one session (built once in __init__).  start() runs the *)
(* handshake and then register_roles(), which walks the callables of the   *)
(* class hierarchy and, for each callee / subscriber mark, sends a REGISTER*)
(* / SUBSCRIBE and blocks for the response.  stop() ends the session.      *)
(*                                                                         *)
(* The session, the proxies and the router are collaborators that are not  *)
(* part of clients.py; they are modelled from the design document.         *)
(***************************************************************************)
EXTENDS Integers, Sequences, FiniteSets

\* ------------------------------------------------------------------ bounds
MaxRoles == 2        \* longest list of callables register_roles walks
MaxUnsolicited == 1  \* messages the router sends on its own in one run
MaxStops == 2        \* calls of stop() in one run

\* ---------------------------------------------------------------- messages
\* WAMP message codes: the first field of every message on the wire.
WAMP_CODE ==
    [ WELCOME |-> 2, ABORT |-> 3, GOODBYE |-> 6, ERROR |-> 8,
      REGISTERED |-> 65, UNREGISTERED |-> 67, INVOCATION |-> 68,
      SUBSCRIBED |-> 33, UNSUBSCRIBED |-> 35, EVENT |-> 36, RESULT |-> 50 ]

\* Inbound messages are the decoded wire arrays the client unpacks.
Welcome == << WAMP_CODE.WELCOME, 1, 0 >>
Abort == << WAMP_CODE.ABORT, 0, 0 >>
RouterGoodbye == << WAMP_CODE.GOODBYE, 0, 0 >>
Error(request_id) == << WAMP_CODE.ERROR, 0, request_id, 0, 0 >>
Registered(request_id, id) == << WAMP_CODE.REGISTERED, request_id, id >>
Unregistered(request_id) == << WAMP_CODE.UNREGISTERED, request_id >>
Subscribed(request_id, id) == << WAMP_CODE.SUBSCRIBED, request_id, id >>
Unsubscribed(request_id) == << WAMP_CODE.UNSUBSCRIBED, request_id >>
Result(request_id) == << WAMP_CODE.RESULT, request_id, 0 >>
Event(subscription_id) == << WAMP_CODE.EVENT, subscription_id, 0, 0 >>
Invocation(request_id, registration_id) ==
    << WAMP_CODE.INVOCATION, request_id, registration_id, 0 >>

\* The kinds the receiver loop hands to a waiting caller, and where each
\* carries the id of the request it answers.
ResponseCodes ==
    { WAMP_CODE.ERROR, WAMP_CODE.REGISTERED, WAMP_CODE.UNREGISTERED,
      WAMP_CODE.SUBSCRIBED, WAMP_CODE.UNSUBSCRIBED, WAMP_CODE.RESULT }

RequestIdOf(msg) == IF msg[1] = WAMP_CODE.ERROR THEN msg[3] ELSE msg[2]

\* Outbound messages are the message objects the client constructs.
Hello == [kind |-> "HELLO"]
Goodbye == [kind |-> "GOODBYE"]
Register(request_id, procedure, options) ==
    [kind |-> "REGISTER", request_id |-> request_id,
     procedure |-> procedure, options |-> options]
Subscribe(request_id, topic) ==
    [kind |-> "SUBSCRIBE", request_id |-> request_id, topic |-> topic]
Unregister(request_id, registration_id) ==
    [kind |-> "UNREGISTER", request_id |-> request_id, id |-> registration_id]
Unsubscribe(request_id, subscription_id) ==
    [kind |-> "UNSUBSCRIBE", request_id |-> request_id, id |-> subscription_id]
Call(request_id, procedure) ==
    [kind |-> "CALL", request_id |-> request_id, procedure |-> procedure]
Publish(request_id, topic) ==
    [kind |-> "PUBLISH", request_id |-> request_id, topic |-> topic]
Yield(request_id) == [kind |-> "YIELD", request_id |-> request_id]

\* ------------------------------------------------------------------- roles
\* A callable found in the class hierarchy: a callee mark (with its
\* invocation policy), a subscriber mark (with its topic), both or neither.
CalleeRole(name, policy) ==
    [func_name |-> name, callee |-> TRUE, invocation_policy |-> policy,
     subscriber |-> FALSE, topic |-> ""]
SubscriberRole(name, topic) ==
    [func_name |-> name, callee |-> FALSE, invocation_policy |-> "",
     subscriber |-> TRUE, topic |-> topic]
PlainCallable(name) ==
    [func_name |-> name, callee |-> FALSE, invocation_policy |-> "",
     subscriber |-> FALSE, topic |-> ""]

Callables ==
    { CalleeRole("get_meta", "roundrobin"), CalleeRole("add", "single"),
      SubscriberRole("on_foo", "foo"), PlainCallable("start") }

SeqsUpTo(S, n) == UNION { [1..k -> S] : k \in 0..n }

VARIABLES
    maybe_roles,        \* the callables register_roles walks, in order
    state,              \* session state
    registration_map,   \* session.registration_map: procedure name -> id
    subscription_map,   \* session.subscription_map: handler name -> <<id, topic>>
    pc,                 \* where the application's thread is
    i,                  \* index of the callable register_roles is at
    outbox,             \* messages to the router it has not handled yet
    answers,            \* how the router answered register_roles' requests
    inbox,              \* messages from the router not yet read
    pending,            \* request id the blocked caller waits on (0: none)
    slot,               \* the response handed to the blocked caller (<<>>: none)
    raised,             \* the error the last operation ended with
    start_result,       \* how the last start() ended ("none": none has)
    endTodo,            \* records end() has still to release
    releasing,          \* id of the record end() is releasing
    requests,           \* the requests register_roles has sent, in order
    farewell,           \* what end() has sent: kind, and id released
    stops,              \* how many times stop() has been called
    unsolicited,        \* how many messages the router has sent unasked
    with_block          \* the with-statement the client is used in, if any

vars == << maybe_roles, state, registration_map, subscription_map, pc, i,
           outbox, answers, inbox, pending, slot, raised,
           start_result, endTodo, releasing, requests, farewell, stops,
           unsolicited, with_block >>

EmptyMap == [n \in {} |-> 0]

\* The with-statement: not entered, entered (__enter__ has been called) or
\* exited (__exit__ has been called), the exception __exit__ was called with
\* and the exception that leaves the with-statement.
WithBlock(phase, exception_value, raises) ==
    [phase |-> phase, exception_value |-> exception_value, raises |-> raises]
NoWith == WithBlock("none", "none", "none")

Init ==
    /\ maybe_roles \in SeqsUpTo(Callables, MaxRoles)
    /\ state = "DISCONNECTED"
    /\ registration_map = EmptyMap
    /\ subscription_map = EmptyMap
    /\ pc = "idle"
    /\ i = 0
    /\ outbox = << >>
    /\ answers = {}
    /\ inbox = << >>
    /\ pending = 0
    /\ slot = << >>
    /\ raised = "none"
    /\ start_result = "none"
    /\ endTodo = {}
    /\ releasing = 0
    /\ requests = << >>
    /\ farewell = {}
    /\ stops = 0
    /\ unsolicited = 0
    /\ with_block = NoWith

\* ----------------------------------------------------------------- session
\* The request ids in use: those of the bindings' requests, the one waited
\* on and those of the messages in flight either way.
RequestKinds ==
    {"REGISTER", "SUBSCRIBE", "UNREGISTER", "UNSUBSCRIBE", "CALL", "PUBLISH"}

InUse ==
    { requests[k].message.request_id : k \in DOMAIN requests }
        \cup { outbox[k].request_id :
                 k \in { j \in DOMAIN outbox : outbox[j].kind \in RequestKinds } }
        \cup { RequestIdOf(inbox[k]) :
                 k \in { j \in DOMAIN inbox : inbox[j][1] \in ResponseCodes } }
        \cup { pending }

\* A message object allocates its request id when it is constructed: an id
\* that is not in use.
NewRequestId ==
    CHOOSE n \in 1..(Cardinality(InUse) + 1) :
        /\ n \notin InUse
        /\ \A m \in 1..(n - 1) : m \in InUse

TransportOpen == state \in {"ESTABLISHING", "ESTABLISHED", "CLOSING"}

\* session.send_message followed by the blocking session.recv_message:
\* the message goes out and the caller waits on its request id.
send_message_and_wait_for_response(message) ==
    /\ outbox' = Append(outbox, message)
    /\ pending' = message.request_id
    /\ slot' = << >>

\* A recv_message that returns at once while a binding's response is awaited.
ReceivedAtOnce ==
    \/ pc \in {"register_wait", "subscribe_wait"}
    \/ pending = 0 /\ slot # << >>

\* session.recv_message has returned: the caller holds the response.
Received == pending = 0 /\ slot # << >>

\* The session was closed under a blocked caller.
WokenClosed == state = "CLOSED"

\* session.send_message: a closed session refuses the message, any other
\* hands it to the transport.
SendRefused == state = "CLOSED"

\* Session end: the records are destroyed, nobody is waited for any more and
\* the transport (with whatever was in flight on it) is gone.
SessionClosed ==
    /\ state' = "CLOSED"
    /\ registration_map' = EmptyMap
    /\ subscription_map' = EmptyMap
    /\ pending' = 0
    /\ inbox' = << >>
    /\ outbox' = << >>
    /\ endTodo' = {}

\* How a start() that is over at `p` with error `e` has ended.
StartResult(p, e) ==
    IF p # "idle" THEN "none" ELSE IF e = "none" THEN "returned" ELSE e

\* ------------------------------------------------------------------ client
\* A session built anew by every start().
session_rebuilt(s) == "DISCONNECTED"

\* Client.__init__ builds the session once; start() calls begin() on that
\* session, whatever state it is in.
session_at_start(s) == s

\* session.begin(): DISCONNECTED -> ESTABLISHING, HELLO goes out and the
\* caller waits for WELCOME or ABORT.  A session that is not DISCONNECTED
\* cannot begin again.
begin(s) ==
    IF s = "DISCONNECTED"
    THEN /\ state' = "ESTABLISHING"
         /\ outbox' = Append(outbox, Hello)
         /\ slot' = << >>
         /\ raised' = "none"
         /\ pc' = "begin_wait"
    ELSE /\ raised' = "SessionClosedError"
         /\ pc' = "idle"
         /\ UNCHANGED << state, outbox, slot >>

\* self.start(), up to the point where begin() blocks.
self_start ==
    /\ pc = "idle"
    /\ state \in {"DISCONNECTED", "CLOSED"}
    /\ begin(session_at_start(state))
    /\ start_result' = StartResult(pc', raised')
    /\ UNCHANGED << maybe_roles, registration_map, subscription_map, i,
                    answers, inbox, pending, endTodo, releasing, requests,
                    farewell, stops, unsolicited >>

\* Client.start, called by the application.
start ==
    /\ self_start
    /\ UNCHANGED with_block

\* Client.__enter__: start() is called; when it raises, the with-statement is
\* left at once and __exit__ is not called.
__enter__ ==
    /\ with_block = NoWith
    /\ with_block' = WithBlock("entered", "none", "none")
    /\ self_start

\* The for loop of register_roles: at callable j, or past the last one, where
\* register_roles (and with it start) returns.
loop_at(j) == IF j > Len(maybe_roles) THEN "idle" ELSE "roles_callee"

\* register_roles() run whether or not begin() raised.
start_regardless(error) == loop_at(1)

\* start(): register_roles() is the statement after begin(), so it runs only
\* when begin() returned without raising.
start_after_begin(error) == IF error = "none" THEN loop_at(1) ELSE "idle"

\* begin() returns (WELCOME) or raises (ABORT); start() goes on accordingly.
begin_recv ==
    /\ pc = "begin_wait"
    /\ slot # << >>
    /\ LET error == IF slot[1] = WAMP_CODE.WELCOME
                    THEN "none" ELSE "HandshakeError"
       IN /\ state' = IF error = "none" THEN "ESTABLISHED" ELSE "DISCONNECTED"
          /\ raised' = error
          /\ pc' = start_after_begin(error)
    /\ i' = 1
    /\ slot' = << >>
    /\ start_result' = StartResult(pc', raised')
    /\ UNCHANGED << with_block, maybe_roles, registration_map, subscription_map, outbox,
                    answers, inbox, pending, endTodo, releasing, requests,
                    farewell, stops, unsolicited >>

\* hasattr(maybe_role, 'callee') / hasattr(maybe_role, 'subscriber')
has_callee(maybe_role) == maybe_role.callee
has_subscriber(maybe_role) == maybe_role.subscriber

\* The unpacking with the fields taken in the wrong order.
unpack_second(response_msg) ==
    IF Len(response_msg) = 3
    THEN [ok |-> TRUE, value |-> response_msg[2]]
    ELSE [ok |-> FALSE, value |-> 0]

\* `_, _, x = response_msg`: only a message of exactly three fields unpacks,
\* and x is its third field; any other length is a ValueError.
unpack(response_msg) ==
    IF Len(response_msg) = 3
    THEN [ok |-> TRUE, value |-> response_msg[3]]
    ELSE [ok |-> FALSE, value |-> 0]

\* _register_rpc wraps the unpacking in try / except ValueError.
register_catches_ValueError == TRUE

\* An except branch that drops the records made so far.
register_failed_clears(map) == [n \in {} |-> 0]

\* The except branch logs and returns: the maps are left as they are.
register_failed(map) == map

\* The entry stored under the literal key instead of the procedure's name.
registration_map_store_literal(map, procedure_name, registration_id) ==
    [n \in DOMAIN map \cup {"procedure_name"} |->
        IF n = "procedure_name" THEN registration_id ELSE map[n]]

\* session.registration_map[procedure_name] = registration_id
registration_map_store(map, procedure_name, registration_id) ==
    [n \in DOMAIN map \cup {procedure_name} |->
        IF n = procedure_name THEN registration_id ELSE map[n]]

\* session.subscription_map[procedure_name] = subscription_id, topic
subscription_map_store(map, procedure_name, subscription_id, topic) ==
    [n \in DOMAIN map \cup {procedure_name} |->
        IF n = procedure_name THEN << subscription_id, topic >> ELSE map[n]]

\* Options that ask for the default policy whatever is declared.
options_default(invocation_policy) == [invoke |-> "single"]

\* _register_rpc: options = {"invoke": invocation_policy}
options(invocation_policy) == [invoke |-> invocation_policy]

\* A request of register_roles: a closed session refuses it and the error
\* leaves register_roles and start; otherwise it goes out, and the thread
\* blocks at `wait` for the response.
Request(message, wait) ==
    IF SendRefused
    THEN /\ raised' = "SessionClosedError"
         /\ pc' = "idle"
         /\ UNCHANGED << outbox, pending, slot, requests >>
    ELSE /\ send_message_and_wait_for_response(message)
         /\ requests' = Append(requests,
                [index |-> i, name |-> maybe_roles[i].func_name,
                 message |-> message])
         /\ pc' = wait
         /\ UNCHANGED raised

\* register_roles at `if hasattr(maybe_role, 'callee')`: a callee is
\* registered, _register_rpc running up to its blocking receive.
register_roles_callee ==
    /\ pc = "roles_callee"
    /\ LET maybe_role == maybe_roles[i]
       IN IF has_callee(maybe_role)
          THEN Request(Register(NewRequestId, maybe_role.func_name,
                                options(maybe_role.invocation_policy)),
                       "register_wait")
          ELSE /\ pc' = "roles_subscriber"
               /\ UNCHANGED << outbox, pending, slot, requests, raised >>
    /\ start_result' = StartResult(pc', raised')
    /\ UNCHANGED << with_block, maybe_roles, state, registration_map, subscription_map,
                    i, answers, inbox, endTodo, releasing, farewell, stops,
                    unsolicited >>

\* _register_rpc from the response on: the entry is stored, or the failure
\* is logged; either way register_roles goes on with the same callable.
_register_rpc ==
    /\ pc = "register_wait"
    /\ \/ /\ Received
          /\ LET r == unpack(slot)
                 name == maybe_roles[i].func_name
             IN IF r.ok
                THEN /\ registration_map' =
                            registration_map_store(registration_map, name, r.value)
                     /\ pc' = "roles_subscriber"
                     /\ UNCHANGED << raised, subscription_map >>
                ELSE IF register_catches_ValueError
                THEN /\ registration_map' = register_failed(registration_map)
                     /\ subscription_map' = register_failed(subscription_map)
                     /\ pc' = "roles_subscriber"
                     /\ UNCHANGED raised
                ELSE /\ raised' = "ValueError"
                     /\ pc' = "idle"
                     /\ UNCHANGED << registration_map, subscription_map >>
          /\ slot' = << >>
       \/ /\ WokenClosed /\ slot = << >>
          /\ raised' = "SessionClosedError"
          /\ pc' = "idle"
          /\ UNCHANGED << registration_map, subscription_map, slot >>
    /\ start_result' = StartResult(pc', raised')
    /\ UNCHANGED << with_block, maybe_roles, state, i, outbox, answers, inbox, pending,
                    endTodo, releasing, requests, farewell, stops,
                    unsolicited >>

\* register_roles at `if hasattr(maybe_role, 'subscriber')`: a subscriber is
\* subscribed, _subscribe running up to its blocking receive; any other
\* callable ends this round of the loop.
register_roles_subscriber ==
    /\ pc = "roles_subscriber"
    /\ LET maybe_role == maybe_roles[i]
       IN IF has_subscriber(maybe_role)
          THEN /\ Request(Subscribe(NewRequestId, maybe_role.topic),
                          "subscribe_wait")
               /\ UNCHANGED i
          ELSE /\ i' = i + 1
               /\ pc' = loop_at(i + 1)
               /\ UNCHANGED << outbox, pending, slot, requests, raised >>
    /\ start_result' = StartResult(pc', raised')
    /\ UNCHANGED << with_block, maybe_roles, state, registration_map, subscription_map,
                    answers, inbox, endTodo, releasing, farewell, stops,
                    unsolicited >>

\* _subscribe from the response on: the unpacking is not guarded, so a
\* response that does not unpack leaves _subscribe, register_roles and start
\* as a ValueError.
_subscribe ==
    /\ pc = "subscribe_wait"
    /\ \/ /\ Received
          /\ LET r == unpack(slot)
                 maybe_role == maybe_roles[i]
             IN IF r.ok
                THEN /\ subscription_map' =
                            subscription_map_store(subscription_map,
                                maybe_role.func_name, r.value, maybe_role.topic)
                     /\ i' = i + 1
                     /\ pc' = loop_at(i + 1)
                     /\ UNCHANGED raised
                ELSE /\ raised' = "ValueError"
                     /\ pc' = "idle"
                     /\ UNCHANGED << subscription_map, i >>
          /\ slot' = << >>
       \/ /\ WokenClosed /\ slot = << >>
          /\ raised' = "SessionClosedError"
          /\ pc' = "idle"
          /\ UNCHANGED << subscription_map, i, slot >>
    /\ start_result' = StartResult(pc', raised')
    /\ UNCHANGED << with_block, maybe_roles, state, registration_map, outbox, answers,
                    inbox, pending, endTodo, releasing, requests, farewell,
                    stops, unsolicited >>

\* ------------------------------------------------------------ session end
\* A message end() has sent: its kind and the id it releases (0: none).
Sent(kind, id) == [kind |-> kind, id |-> id]

\* An end() that releases no record before it says GOODBYE.
NoRecords == {}

LiveRecords ==
    { << "registration", n >> : n \in DOMAIN registration_map }
        \cup { << "subscription", n >> : n \in DOMAIN subscription_map }

RecordId(rec) ==
    IF rec[1] = "registration"
    THEN registration_map[rec[2]] ELSE subscription_map[rec[2]][1]

RegistrationsWithout(id) ==
    [n \in { k \in DOMAIN registration_map : registration_map[k] # id }
        |-> registration_map[n]]
SubscriptionsWithout(id) ==
    [n \in { k \in DOMAIN subscription_map : subscription_map[k][1] # id }
        |-> subscription_map[n]]

\* An end() that does not look at the state it is called in.
end_unguarded ==
    /\ state' = "CLOSING"
    /\ endTodo' = LiveRecords
    /\ farewell' = {}
    /\ pc' = "end_records"

\* session.end(): a second call after CLOSED is a no-op; otherwise the
\* session goes to CLOSING and releases its records one by one.
end ==
    IF state = "CLOSED"
    THEN /\ pc' = "idle"
         /\ UNCHANGED << state, endTodo, farewell >>
    ELSE /\ state' = "CLOSING"
         /\ endTodo' = LiveRecords
         /\ farewell' = {}
         /\ pc' = "end_records"

\* self.stop()
self_stop ==
    /\ pc = "idle"
    /\ state \in {"ESTABLISHED", "CLOSED"}
    /\ stops' = stops + 1
    /\ raised' = "none"
    /\ end
    /\ UNCHANGED << maybe_roles, registration_map, subscription_map, i,
                    outbox, answers, inbox, pending, slot, start_result,
                    releasing, requests, unsolicited >>

\* Client.stop, called by the application.
stop ==
    /\ stops < MaxStops
    /\ self_stop
    /\ UNCHANGED with_block

\* An __exit__ that returns True.
exit_suppresses == TRUE

\* What Client.__exit__ returns: nothing, which is false.
exit_returns == FALSE

\* Client.__exit__(exception_type, exception_value, traceback), called when
\* the body of the with-statement is over: with no exception, or with the
\* one the body's last operation raised.  stop() is called, and the
\* exception leaves the with-statement unless __exit__ returns true.
__exit__ ==
    /\ with_block.phase = "entered"
    /\ start_result = "returned"
    /\ \E exception_value \in {"none", raised} :
          with_block' = WithBlock("exited", exception_value,
                            IF exit_returns THEN "none" ELSE exception_value)
    /\ self_stop

\* end(): UNREGISTER / UNSUBSCRIBE for the next live record, or, when none
\* is left, GOODBYE (a record that went with another one of the same id is
\* not live any more).  When the router has closed the session meanwhile there
\* is nothing left to release and nobody to say GOODBYE to.
end_records ==
    /\ pc = "end_records"
    /\ IF SendRefused
       THEN /\ pc' = "idle"
            /\ UNCHANGED << outbox, pending, slot, farewell, releasing,
                            endTodo >>
       ELSE IF endTodo \cap LiveRecords # {}
       THEN \E rec \in endTodo \cap LiveRecords :
              LET message == IF rec[1] = "registration"
                             THEN Unregister(NewRequestId, RecordId(rec))
                             ELSE Unsubscribe(NewRequestId, RecordId(rec))
              IN /\ send_message_and_wait_for_response(message)
                 /\ farewell' = farewell \cup {Sent(message.kind, message.id)}
                 /\ releasing' = message.id
                 /\ endTodo' = endTodo \ {rec}
                 /\ pc' = "end_wait"
       ELSE /\ outbox' = Append(outbox, Goodbye)
            /\ farewell' = farewell \cup {Sent("GOODBYE", 0)}
            /\ slot' = << >>
            /\ pc' = "goodbye_wait"
            /\ UNCHANGED << endTodo, pending, releasing >>
    /\ UNCHANGED << with_block, maybe_roles, state, registration_map, subscription_map,
                    i, answers, inbox, raised, start_result, requests,
                    unsolicited, stops >>

\* end(): the answer to an UNREGISTER / UNSUBSCRIBE.  Success destroys the
\* record; a failure is logged and is not fatal.
end_recv ==
    /\ pc = "end_wait"
    /\ \/ /\ Received
          /\ IF slot[1] = WAMP_CODE.UNREGISTERED
             THEN /\ registration_map' = RegistrationsWithout(releasing)
                  /\ UNCHANGED subscription_map
             ELSE IF slot[1] = WAMP_CODE.UNSUBSCRIBED
             THEN /\ subscription_map' = SubscriptionsWithout(releasing)
                  /\ UNCHANGED registration_map
             ELSE UNCHANGED << registration_map, subscription_map >>
          /\ pc' = "end_records"
       \/ /\ WokenClosed /\ slot = << >>
          /\ pc' = "idle"
          /\ UNCHANGED << registration_map, subscription_map >>
    /\ slot' = << >>
    /\ releasing' = 0
    /\ UNCHANGED << with_block, maybe_roles, state, i, outbox, answers, inbox, pending,
                    raised, start_result, endTodo, requests, farewell, stops,
                    unsolicited >>

\* end(): the router's GOODBYE has come (or the session was closed from the
\* other side meanwhile): CLOSING -> CLOSED.
goodbye_recv ==
    /\ pc = "goodbye_wait"
    /\ \/ /\ slot # << >>
          /\ SessionClosed
       \/ /\ WokenClosed /\ slot = << >>
          /\ UNCHANGED << state, registration_map, subscription_map, pending,
                          inbox, outbox, endTodo >>
    /\ slot' = << >>
    /\ pc' = "idle"
    /\ UNCHANGED << with_block, maybe_roles, i, answers, raised, start_result, releasing,
                    requests, farewell, stops, unsolicited >>

\* ------------------------------------------------- steady-state operations
Procedures == {"add"}
Topics == {"foo"}

\* The procedure each meta query method calls.
MetaProcedure ==
    [ get_subscription_info |-> "wamp.subscription.get",
      get_subscription_list |-> "wamp.subscription.list",
      get_subscription_lookup |-> "wamp.subscription.lookup",
      get_subscription_match |-> "wamp.subscription.match",
      list_subscribers |-> "wamp.subscription.list_subscribers",
      count_subscribers |-> "wamp.subscription.count_subscribers",
      get_registration_list |-> "wamp.registration.list",
      get_registration_lookup |-> "wamp.registration.lookup",
      get_registration_match |-> "wamp.registration.match",
      get_registration |-> "wamp.registration.get",
      list_callees |-> "wamp.registration.list_callees",
      count_callees |-> "wamp.registration.count_callees" ]

\* The application starts an operation on a client it has started, with
\* nothing of an earlier operation still in flight.
Operation ==
    /\ pc = "idle"
    /\ state \in {"ESTABLISHED", "CLOSED"}
    /\ outbox = << >> /\ inbox = << >>

\* CallProxy / RpcProxy: on a closed session the call fails with
\* SessionClosedError; otherwise a CALL goes out and the caller waits for the
\* RESULT or ERROR carrying its request id.
CallProxy(procedure) ==
    IF state = "CLOSED"
    THEN /\ raised' = "SessionClosedError"
         /\ pc' = "idle"
         /\ UNCHANGED << outbox, pending, slot >>
    ELSE /\ send_message_and_wait_for_response(Call(NewRequestId, procedure))
         /\ raised' = "none"
         /\ pc' = "call_wait"

\* PublishProxy: PUBLISH without acknowledgement returns at once.
PublishProxy(topic) ==
    IF state = "CLOSED"
    THEN /\ raised' = "SessionClosedError"
         /\ UNCHANGED << outbox >>
    ELSE /\ outbox' = Append(outbox, Publish(NewRequestId, topic))
         /\ raised' = "none"

\* Client.call
call ==
    /\ Operation
    /\ \E procedure \in Procedures : CallProxy(procedure)
    /\ UNCHANGED << with_block, maybe_roles, state, registration_map, subscription_map,
                    i, answers, inbox, start_result, endTodo, releasing,
                    requests, farewell, stops, unsolicited >>

\* Client.rpc
rpc ==
    /\ Operation
    /\ \E procedure \in Procedures : CallProxy(procedure)
    /\ UNCHANGED << with_block, maybe_roles, state, registration_map, subscription_map,
                    i, answers, inbox, start_result, endTodo, releasing,
                    requests, farewell, stops, unsolicited >>

\* Client.get_subscription_info ... Client.count_callees
meta_query ==
    /\ Operation
    /\ \E method \in DOMAIN MetaProcedure : CallProxy(MetaProcedure[method])
    /\ UNCHANGED << with_block, maybe_roles, state, registration_map, subscription_map,
                    i, answers, inbox, start_result, endTodo, releasing,
                    requests, farewell, stops, unsolicited >>

\* The CALL of call / rpc / a meta query is answered.
call_recv ==
    /\ pc = "call_wait"
    /\ \/ /\ Received
          /\ raised' = IF slot[1] = WAMP_CODE.RESULT
                       THEN "none" ELSE "RemoteError"
       \/ /\ WokenClosed /\ slot = << >>
          /\ raised' = "SessionClosedError"
    /\ slot' = << >>
    /\ pc' = "idle"
    /\ UNCHANGED << with_block, maybe_roles, state, registration_map, subscription_map,
                    i, outbox, answers, inbox, pending, start_result,
                    endTodo, releasing, requests, farewell, stops,
                    unsolicited >>

\* Client.publish
publish ==
    /\ Operation
    /\ \E topic \in Topics : PublishProxy(topic)
    /\ UNCHANGED << with_block, maybe_roles, state, registration_map, subscription_map,
                    pc, i, answers, inbox, pending, slot, start_result,
                    endTodo, releasing, requests, farewell, stops,
                    unsolicited >>

\* A get_meta that empties the map it reports on.
get_meta_clears(map) == [n \in {} |-> 0]

\* What ServiceClient.get_meta does to a map: it reads its keys.
get_meta_keys(map) == map

\* ServiceClient.get_meta
get_meta ==
    /\ registration_map' = get_meta_keys(registration_map)
    /\ subscription_map' = get_meta_keys(subscription_map)

\* ServiceClient.get_meta, called by the application.
get_meta_call ==
    /\ Operation
    /\ get_meta
    /\ raised' = "none"
    /\ UNCHANGED << with_block, maybe_roles, state, pc, i, outbox, answers, inbox,
                    pending, slot, start_result, endTodo, releasing,
                    requests, farewell, stops, unsolicited >>

\* Messages the application hands to Client.send_message itself.
UserMessages ==
    { Register(NewRequestId, "add", [invoke |-> "single"]),
      Subscribe(NewRequestId, "foo") }

\* Client.send_message: the message is passed to session.send_message and
\* nothing is waited for.
send_message ==
    /\ Operation
    /\ IF SendRefused
       THEN /\ raised' = "SessionClosedError"
            /\ UNCHANGED << outbox >>
       ELSE /\ \E message \in UserMessages : outbox' = Append(outbox, message)
            /\ raised' = "none"
    /\ UNCHANGED << with_block, maybe_roles, state, registration_map, subscription_map,
                    pc, i, answers, inbox, pending, slot, start_result,
                    endTodo, releasing, requests, farewell, stops,
                    unsolicited >>

\* ------------------------------------------------------------------ router
RouterIdBase == 100
UnknownId == 0

\* The id the router issues when it acknowledges request `request_id`.
RouterId(request_id) == RouterIdBase + request_id

\* The ids the router has issued for register_roles' requests of `kind`, and
\* the requests of register_roles it has refused.
Acks == {WAMP_CODE.REGISTERED, WAMP_CODE.SUBSCRIBED}
IssuedFor(kind) ==
    { b.id : b \in { q \in answers : q.kind = kind /\ q.code \in Acks } }
Refused ==
    { b.request_id : b \in { q \in answers : q.code = WAMP_CODE.ERROR } }

\* The router's answer to `m` is noted when m is a request of register_roles.
Answered(m, code, id) ==
    IF \E k \in DOMAIN requests : requests[k].message = m
    THEN answers \cup {[kind |-> m.kind, request_id |-> m.request_id,
                        code |-> code, id |-> id]}
    ELSE answers

\* The router handles the next message of the client: it acknowledges or
\* refuses it.  PUBLISH (unacknowledged) and YIELD get no reply.
RouterAnswer ==
    /\ TransportOpen
    /\ outbox # << >>
    /\ outbox' = Tail(outbox)
    /\ LET m == Head(outbox)
       IN CASE m.kind = "HELLO" ->
                 /\ \E r \in {Welcome, Abort} : inbox' = Append(inbox, r)
                 /\ UNCHANGED answers
            [] m.kind = "GOODBYE" ->
                 /\ inbox' = Append(inbox, RouterGoodbye)
                 /\ UNCHANGED answers
            [] m.kind \in {"REGISTER", "SUBSCRIBE"} ->
                 \/ /\ inbox' = Append(inbox,
                          IF m.kind = "REGISTER"
                          THEN Registered(m.request_id, RouterId(m.request_id))
                          ELSE Subscribed(m.request_id, RouterId(m.request_id)))
                    /\ answers' = Answered(m,
                          IF m.kind = "REGISTER"
                          THEN WAMP_CODE.REGISTERED ELSE WAMP_CODE.SUBSCRIBED,
                          RouterId(m.request_id))
                 \/ /\ inbox' = Append(inbox, Error(m.request_id))
                    /\ answers' = Answered(m, WAMP_CODE.ERROR, UnknownId)
            [] m.kind \in {"UNREGISTER", "UNSUBSCRIBE"} ->
                 /\ \E r \in { IF m.kind = "UNREGISTER"
                               THEN Unregistered(m.request_id)
                               ELSE Unsubscribed(m.request_id),
                               Error(m.request_id) } :
                        inbox' = Append(inbox, r)
                 /\ UNCHANGED answers
            [] m.kind = "CALL" ->
                 /\ \E r \in {Result(m.request_id), Error(m.request_id)} :
                        inbox' = Append(inbox, r)
                 /\ UNCHANGED answers
            [] OTHER -> UNCHANGED << inbox, answers >>
    /\ UNCHANGED << with_block, maybe_roles, state, registration_map, subscription_map,
                    pc, i, pending, slot, raised, start_result, endTodo,
                    releasing, requests, farewell, stops, unsolicited >>

\* ----------------------------------------------------------- receiver loop
\* The one reader of the transport takes `msg` off it, `rest` being what is
\* still in flight behind it.  The handshake's or the shutdown's answer goes
\* to whoever waits for it; GOODBYE / ABORT nobody asked for close the
\* session; a response goes to the caller waiting on its request id and is
\* dropped when nobody is; an INVOCATION / EVENT is dispatched to the handler
\* its id resolves to (the handler's YIELD is sent) and dropped when the id
\* is unknown.
Receive(msg, rest) ==
    LET code == msg[1]
        handshake == pc = "begin_wait" /\ slot = << >>
        leaving == pc = "goodbye_wait" /\ slot = << >>
    IN CASE (code \in {WAMP_CODE.WELCOME, WAMP_CODE.ABORT} /\ handshake)
              \/ (code = WAMP_CODE.GOODBYE /\ leaving) ->
              /\ slot' = msg
              /\ inbox' = rest
              /\ UNCHANGED << state, registration_map, subscription_map,
                              pending, endTodo, outbox >>
         [] code \in {WAMP_CODE.GOODBYE, WAMP_CODE.ABORT}
              /\ ~handshake /\ ~leaving ->
              /\ SessionClosed
              /\ UNCHANGED << slot >>
         [] code \in ResponseCodes /\ pending # 0
              /\ RequestIdOf(msg) = pending ->
              /\ slot' = msg
              /\ pending' = 0
              /\ inbox' = rest
              /\ UNCHANGED << state, registration_map, subscription_map,
                              endTodo, outbox >>
         [] code = WAMP_CODE.INVOCATION
              /\ (\E n \in DOMAIN registration_map :
                     registration_map[n] = msg[3]) ->
              /\ IF \E n \in DOMAIN registration_map :
                       n = "get_meta" /\ registration_map[n] = msg[3]
                 THEN get_meta
                 ELSE UNCHANGED << registration_map, subscription_map >>
              /\ outbox' = Append(outbox, Yield(msg[2]))
              /\ inbox' = rest
              /\ UNCHANGED << state, pending, slot, endTodo >>
         [] OTHER ->
              /\ inbox' = rest
              /\ UNCHANGED << state, registration_map, subscription_map,
                              pending, slot, endTodo, outbox >>

\* The receiver loop reads the response the router has sent.
ReceiverLoop ==
    /\ TransportOpen
    /\ inbox # << >>
    /\ Receive(Head(inbox), Tail(inbox))
    /\ UNCHANGED << with_block, maybe_roles, pc, i, answers, raised, start_result,
                    releasing, requests, farewell, stops, unsolicited >>

\* What the router may send without being asked: events and invocations for
\* ids it issued (or ids the client never had), a close, a late response that
\* answers no request the client is waiting on, and a RESULT that carries the
\* request id the client is waiting on, whatever kind that request was.
UnsolicitedMessages ==
    { Event(id) : id \in IssuedFor("SUBSCRIBE") \cup {UnknownId} }
        \cup { Invocation(0, id) : id \in IssuedFor("REGISTER") \cup {UnknownId} }
        \cup { RouterGoodbye, Abort, Welcome, Error(0), Result(pending) }

\* The RESULT sent in answer to a request of register_roles is noted.
Strayed(msg) ==
    IF /\ msg[1] = WAMP_CODE.RESULT
       /\ \E k \in DOMAIN requests : requests[k].message.request_id = msg[2]
    THEN LET k == CHOOSE j \in DOMAIN requests :
                      requests[j].message.request_id = msg[2]
         IN Answered(requests[k].message, WAMP_CODE.RESULT, UnknownId)
    ELSE answers

\* The router sends a message of its own, ahead of whatever answer is still
\* in flight, and the receiver loop reads it.
RouterUnsolicited ==
    /\ state \in {"ESTABLISHED", "CLOSING"}
    /\ unsolicited < MaxUnsolicited
    /\ unsolicited' = unsolicited + 1
    /\ \E msg \in UnsolicitedMessages :
          /\ Receive(msg, inbox)
          /\ answers' = Strayed(msg)
    /\ UNCHANGED << with_block, maybe_roles, pc, i, raised, start_result, releasing,
                    requests, farewell, stops >>

\* ----------------------------------------------------------- specification
Next ==
    \/ start
    \/ begin_recv
    \/ register_roles_callee
    \/ _register_rpc
    \/ register_roles_subscriber
    \/ _subscribe
    \/ stop
    \/ end_records
    \/ end_recv
    \/ goodbye_recv
    \/ call
    \/ rpc
    \/ meta_query
    \/ call_recv
    \/ publish
    \/ get_meta_call
    \/ send_message
    \/ RouterAnswer
    \/ RouterUnsolicited
    \/ ReceiverLoop

Spec == Init /\ [][Next]_vars

\* The client used as a context manager: __enter__, a body of calls,
\* publishes and stops, __exit__.
NextWith ==
    \/ __enter__
    \/ begin_recv
    \/ register_roles_callee
    \/ _register_rpc
    \/ register_roles_subscriber
    \/ _subscribe
    \/ __exit__
    \/ stop
    \/ end_records
    \/ end_recv
    \/ goodbye_recv
    \/ call
    \/ call_recv
    \/ publish
    \/ RouterAnswer
    \/ RouterUnsolicited
    \/ ReceiverLoop

SpecWith == Init /\ [][NextWith]_vars

\* ------------------------------------------------------------------ claims
RequestsOf(kind) ==
    { k \in DOMAIN requests : requests[k].message.kind = kind }

\* Request k of register_roles was acknowledged with `id`.
Acknowledged(k, id) ==
    \E a \in answers :
        /\ a.code \in Acks
        /\ a.request_id = requests[k].message.request_id
        /\ a.id = id

\* The router answered every request of register_roles, and with nothing but
\* REGISTERED / SUBSCRIBED.
AllAcknowledged == \A a \in answers : a.code \in Acks

RefusedRequests(kind) ==
    { k \in RequestsOf(kind) : requests[k].message.request_id \in Refused }

DeclaredProcedures ==
    { maybe_roles[k].func_name :
        k \in { j \in DOMAIN maybe_roles : maybe_roles[j].callee } }

DeclaredSubscribers ==
    { maybe_roles[k].func_name :
        k \in { j \in DOMAIN maybe_roles : maybe_roles[j].subscriber } }

TopicOf(name) ==
    { maybe_roles[k].topic :
        k \in { j \in DOMAIN maybe_roles :
                  maybe_roles[j].subscriber /\ maybe_roles[j].func_name = name } }

\* start() has returned normally and the session it established is live.
Started == start_result = "returned" /\ state = "ESTABLISHED"

\* C1: after a start() in which the router acknowledged every REGISTER and
\* SUBSCRIBE, registration_map has exactly one entry per declared procedure
\* and subscription_map exactly one per declared subscriber, each mapped to
\* an id the router issued (and, for a subscriber, to its topic).
C1_RegistryHoldsEveryBinding ==
    (Started /\ AllAcknowledged) =>
        /\ DOMAIN registration_map = DeclaredProcedures
        /\ DOMAIN subscription_map = DeclaredSubscribers
        /\ \A n \in DOMAIN registration_map :
              registration_map[n] \in IssuedFor("REGISTER")
        /\ \A n \in DOMAIN subscription_map :
              /\ subscription_map[n][1] \in IssuedFor("SUBSCRIBE")
              /\ subscription_map[n][2] \in TopicOf(n)

C1_Witness ==
    /\ Started /\ AllAcknowledged
    /\ Cardinality(DOMAIN registration_map) = 1
    /\ Cardinality(DOMAIN subscription_map) = 1

\* The router sent no RESULT in answer to a request of register_roles.
NoStrayResult == \A a \in answers : a.code # WAMP_CODE.RESULT

\* start() is over and its session is live: every response to a request of
\* register_roles has been consumed.
StartOver == start_result # "none" /\ state = "ESTABLISHED"

\* C2: an ERROR in answer to a REGISTER or SUBSCRIBE of startup aborts
\* startup: start() fails with a RegistrationError and the refused request
\* is the last request it sent.
C2_ErrorAbortsStartup ==
    (StartOver /\ NoStrayResult /\ Refused # {}) =>
        /\ start_result = "RegistrationError"
        /\ requests[Len(requests)].message.request_id \in Refused

\* The router refused the first request of startup, a later one was sent all
\* the same, and start() has returned normally.
C2_Witness ==
    /\ Started /\ NoStrayResult
    /\ Len(requests) > 1
    /\ requests[1].message.request_id \in Refused

\* C3: when a REGISTER of a startup of more than one binding is answered
\* with ERROR, startup fails and both maps end empty.
C3_ErrorRollsBack ==
    (/\ StartOver /\ NoStrayResult
     /\ Len(requests) > 1
     /\ RefusedRequests("REGISTER") # {}) =>
        /\ start_result # "returned"
        /\ registration_map = EmptyMap
        /\ subscription_map = EmptyMap

\* A REGISTER was refused, start() is over and the entry of a binding that
\* was acknowledged before the refusal is still there.
C3_Witness ==
    /\ StartOver /\ NoStrayResult
    /\ Len(requests) > 1
    /\ requests[Len(requests)].message.request_id \in Refused
    /\ requests[Len(requests)].message.kind = "REGISTER"
    /\ DOMAIN registration_map \cup DOMAIN subscription_map # {}

\* Entry n of the map is new or has changed in this step.
Written(map, map_after) ==
    \E n \in DOMAIN map_after :
        n \notin DOMAIN map \/ map_after[n] # map[n]

\* C4: an entry is written to registration_map only by the REGISTERED that
\* answers a REGISTER and to subscription_map only by the SUBSCRIBED that
\* answers a SUBSCRIBE; a message of no other kind creates a record.
C4_OnlyAcksCreateRecords ==
    [][ /\ Written(registration_map, registration_map') =>
            (pc = "register_wait" /\ slot # << >>
             /\ slot[1] = WAMP_CODE.REGISTERED)
        /\ Written(subscription_map, subscription_map') =>
            (pc = "subscribe_wait" /\ slot # << >>
             /\ slot[1] = WAMP_CODE.SUBSCRIBED) ]_vars

\* A record holds an id the router never issued: it was made of a RESULT.
C4_Witness ==
    \/ \E n \in DOMAIN registration_map :
          registration_map[n] \notin IssuedFor("REGISTER")
    \/ \E n \in DOMAIN subscription_map :
          subscription_map[n][1] \notin IssuedFor("SUBSCRIBE")

\* C5: whatever the router sends between a request and its response (an
\* EVENT or an INVOCATION for a live record, for an unknown id, a late
\* response), an EVENT or INVOCATION is never handed over as the awaited
\* response, no binding is mapped to an id issued for another binding, and
\* the id recorded for a binding is the one of the REGISTERED / SUBSCRIBED
\* that answered a request of that very binding.
C5_IdIsTheBindingsOwn ==
    /\ slot # << >> =>
          slot[1] \notin {WAMP_CODE.EVENT, WAMP_CODE.INVOCATION}
    /\ \A n \in DOMAIN registration_map :
          \A k \in RequestsOf("REGISTER") :
              Acknowledged(k, registration_map[n]) => requests[k].name = n
    /\ \A n \in DOMAIN subscription_map :
          \A k \in RequestsOf("SUBSCRIBE") :
              Acknowledged(k, subscription_map[n][1]) => requests[k].name = n
    /\ NoStrayResult =>
          /\ \A n \in DOMAIN registration_map :
                \E k \in RequestsOf("REGISTER") :
                    /\ requests[k].name = n
                    /\ Acknowledged(k, registration_map[n])
          /\ \A n \in DOMAIN subscription_map :
                \E k \in RequestsOf("SUBSCRIBE") :
                    /\ requests[k].name = n
                    /\ Acknowledged(k, subscription_map[n][1])

\* An invocation for a live registration was dispatched (its YIELD is the
\* last message out) while the thread waits for the answer to the request
\* of a later binding.
C5_Witness ==
    /\ pc \in {"register_wait", "subscribe_wait"}
    /\ pending # 0
    /\ NoStrayResult
    /\ DOMAIN registration_map # {}
    /\ outbox # << >>
    /\ outbox[Len(outbox)].kind = "YIELD"

\* C6: a REGISTER or SUBSCRIBE is sent only on a session whose handshake
\* has succeeded, and a start() whose handshake failed has sent none and
\* has left both maps empty.
C6_NoRequestBeforeHandshake ==
    /\ [][requests' # requests => state = "ESTABLISHED"]_vars
    /\ [](start_result = "HandshakeError" =>
            /\ requests = << >>
            /\ outbox = << >>
            /\ registration_map = EmptyMap
            /\ subscription_map = EmptyMap)

\* The handshake of a client that declares a role was refused.
C6_Witness ==
    /\ start_result = "HandshakeError"
    /\ DeclaredProcedures \cup DeclaredSubscribers # {}

\* C7: CLOSED is terminal: no step takes a session out of CLOSED, and
\* nothing (a HELLO in particular) is sent on it any more.
C7_ClosedIsTerminal ==
    [][state = "CLOSED" => (state' = "CLOSED" /\ outbox' = << >>)]_vars

\* The session was ended by stop() and a second start() has failed on it.
C7_Witness ==
    /\ state = "CLOSED"
    /\ farewell # {}
    /\ start_result = "SessionClosedError"

\* C8: a stop() on a session that is CLOSED sends nothing, raises nothing
\* and leaves the state and both maps as they are.
C8_StopIsIdempotent ==
    [][(stops' # stops /\ state = "CLOSED") =>
          /\ pc' = "idle"
          /\ raised' = "none"
          /\ UNCHANGED << state, outbox, inbox, farewell,
                          registration_map, subscription_map >>]_vars

\* stop() has been called a second time, the first call having ended the
\* session.
C8_Witness ==
    /\ stops = 2
    /\ state = "CLOSED"
    /\ farewell # {}
    /\ raised = "none"

\* C9: end() says GOODBYE only after an UNSUBSCRIBE for every subscription
\* it found live (one that is still recorded when GOODBYE has gone out has
\* had its UNSUBSCRIBE refused), it sends nothing after GOODBYE, the GOODBYE
\* exchange leaves the session CLOSED, and a call on a CLOSED session fails
\* with SessionClosedError and sends no CALL.
C9_UnsubscribeGoodbyeClosed ==
    /\ []((Sent("GOODBYE", 0) \in farewell /\ state = "CLOSING") =>
            \A n \in DOMAIN subscription_map :
                Sent("UNSUBSCRIBE", subscription_map[n][1]) \in farewell)
    /\ [][farewell' # farewell =>
            (farewell' = {} \/ Sent("GOODBYE", 0) \notin farewell)]_vars
    /\ [][(pc = "goodbye_wait" /\ pc' = "idle") => state' = "CLOSED"]_vars
    /\ [][(call /\ state = "CLOSED") =>
            (raised' = "SessionClosedError" /\ outbox' = << >>)]_vars

\* A client with one live subscription was stopped with exactly UNSUBSCRIBE
\* and GOODBYE, and an operation on it has failed with SessionClosedError.
C9_Witness ==
    /\ state = "CLOSED"
    /\ raised = "SessionClosedError"
    /\ start_result = "returned"
    /\ Cardinality(farewell) = 2
    /\ Sent("GOODBYE", 0) \in farewell
    /\ \E m \in farewell : m.kind = "UNSUBSCRIBE"

\* C10: once start() has returned, call, rpc, publish, the meta queries,
\* get_meta and send_message write neither map; the maps are written only
\* where a binding's response is consumed, where end() releases a record
\* and where the session closes.
C10_SteadyOperationsKeepTheMaps ==
    /\ [][(call \/ rpc \/ meta_query \/ call_recv \/ publish
              \/ get_meta_call \/ send_message) =>
            UNCHANGED << registration_map, subscription_map >>]_vars
    /\ [][(registration_map' # registration_map
              \/ subscription_map' # subscription_map) =>
            \/ pc \in {"register_wait", "subscribe_wait", "end_wait"}
            \/ state' = "CLOSED"]_vars

\* A call made after start() was answered with ERROR, with records live.
C10_Witness ==
    /\ raised = "RemoteError"
    /\ state = "ESTABLISHED"
    /\ DOMAIN registration_map # {}
    /\ DOMAIN subscription_map # {}

\* The requests of register_roles the router has not answered.
Unanswered ==
    { k \in DOMAIN requests :
        \A a \in answers : a.request_id # requests[k].message.request_id }

\* C11: during role registration at most one REGISTER / SUBSCRIBE is
\* outstanding: only the last request sent can be without an answer, and the
\* next request is sent only when the response to the one before has been
\* handed over and consumed.
C11_OneRequestOutstanding ==
    /\ [](\A k \in Unanswered : k = Len(requests))
    /\ [][requests' # requests =>
            /\ Len(requests') = Len(requests) + 1
            /\ pending = 0 /\ slot = << >>
            /\ Unanswered = {}
            /\ pending' = requests'[Len(requests')].message.request_id]_vars

\* A second binding's request is out and awaited, the first one's response
\* having been consumed.
C11_Witness ==
    /\ Len(requests) = 2
    /\ Unanswered = {2}
    /\ pending = requests[2].message.request_id
    /\ pc \in {"register_wait", "subscribe_wait"}

\* C12: register_roles sends one REGISTER per procedure name and one
\* SUBSCRIBE per handler name: no two of its requests are for the same
\* binding.
C12_OneRequestPerBinding ==
    \A j, k \in DOMAIN requests :
        (/\ requests[j].message.kind = requests[k].message.kind
         /\ requests[j].name = requests[k].name) => j = k

\* start() has returned having sent two REGISTERs for the same procedure,
\* both acknowledged; the map holds the id of the second.
C12_Witness ==
    /\ Started /\ AllAcknowledged
    /\ Len(requests) = 2
    /\ requests[1].message.kind = "REGISTER"
    /\ requests[2].message.kind = "REGISTER"
    /\ requests[1].name = requests[2].name
    /\ Acknowledged(2, registration_map[requests[2].name])

\* C13: where _register_rpc consumes a response that is not a message of
\* three fields (a router ERROR), it writes neither map: no entry is added
\* for the procedure, none is changed and none is removed; and it raises
\* nothing.
C13_FailedRegisterWritesNothing ==
    [][(_register_rpc /\ slot # << >> /\ Len(slot) # 3) =>
          /\ UNCHANGED << registration_map, subscription_map >>
          /\ raised' = raised
          /\ pc' = "roles_subscriber"]_vars

\* The ERROR to the REGISTER of the second binding has just been consumed,
\* and the entry of the first binding is in its map.
C13_Witness ==
    /\ pc = "roles_subscriber"
    /\ state = "ESTABLISHED"
    /\ Len(requests) = 2
    /\ requests[2].message.kind = "REGISTER"
    /\ requests[2].message.request_id \in Refused
    /\ requests[2].name \notin DOMAIN registration_map
    /\ DOMAIN registration_map \cup DOMAIN subscription_map # {}

\* The with-statement has been left: __exit__ has returned, or __enter__ has
\* raised (start() failed), after which __exit__ is not called.
EnterRaised ==
    /\ with_block.phase = "entered"
    /\ pc = "idle"
    /\ start_result \notin {"none", "returned"}

ExitReturned == with_block.phase = "exited" /\ pc = "idle"

WithLeft == EnterRaised \/ ExitReturned

\* C14: when the with-statement is left, a session whose begin() succeeded
\* has been ended, however the with-statement was left.
C14_WithEndsTheSession ==
    WithLeft => state \in {"DISCONNECTED", "CLOSED"}

\* __enter__ has raised the ValueError of a refused SUBSCRIBE: the handshake
\* had succeeded, __exit__ is not called and the session is still live.
C14_Witness ==
    /\ EnterRaised
    /\ start_result = "ValueError"
    /\ stops = 0
    /\ state = "ESTABLISHED"

\* C15: __exit__ is called with no operation of the body in progress, calls
\* stop() (and so session.end()) once and is not called again, leaves the
\* session CLOSED when it has returned, and lets the exception it was called
\* with leave the with-statement.
C15_ExitEndsOnce ==
    /\ [][with_block' # with_block =>
            \/ /\ with_block = NoWith
               /\ with_block'.phase = "entered"
            \/ /\ with_block.phase = "entered"
               /\ with_block'.phase = "exited"
               /\ pc = "idle" /\ slot = << >> /\ pending = 0
               /\ stops' = stops + 1
               /\ state = "ESTABLISHED" => state' = "CLOSING"
               /\ with_block'.raises = with_block'.exception_value]_vars
    /\ [](ExitReturned => state = "CLOSED")

\* The body's call raised RemoteError, __exit__ ended the session and the
\* RemoteError has left the with-statement.
C15_Witness ==
    /\ ExitReturned
    /\ with_block.raises = "RemoteError"
    /\ stops = 1
    /\ state = "CLOSED"
    /\ Sent("GOODBYE", 0) \in farewell

\* C16: every REGISTER of register_roles names the procedure and carries as
\* its invoke option the policy declared on it (roundrobin for get_meta);
\* registration_map maps the procedure's name to an id and to nothing else.
C16_RegisterCarriesThePolicy ==
    /\ \A k \in RequestsOf("REGISTER") :
          LET maybe_role == maybe_roles[requests[k].index]
              message == requests[k].message
          IN /\ maybe_role.callee
             /\ message.procedure = maybe_role.func_name
             /\ message.options = [invoke |-> maybe_role.invocation_policy]
             /\ maybe_role.func_name = "get_meta" =>
                   message.options.invoke = "roundrobin"
    /\ \A n \in DOMAIN registration_map :
          /\ n \in DeclaredProcedures
          /\ registration_map[n] \in Nat

\* get_meta and a procedure of policy single are both registered, each
\* REGISTER having carried its own policy.
C16_Witness ==
    /\ Started /\ AllAcknowledged
    /\ DOMAIN registration_map = {"get_meta", "add"}
    /\ \E k \in RequestsOf("REGISTER") :
          requests[k].message.options.invoke = "roundrobin"
    /\ \E k \in RequestsOf("REGISTER") :
          requests[k].message.options.invoke = "single"

====
